---- MODULE Spec2Model ----
(***************************************************************************)
(* Model of gleich/ghs_games_backend: the fetch-and-normalize pipeline of  *)
(* src/src/fetch.rs and the GET /current-week handler of src/src/main.rs.  *)
(*                                                                         *)
(* Strings are sequences of one-character strings, so that substring       *)
(* search, splitting, padding and date parsing are computed character by   *)
(* character.  Map keys, error messages and control tags are TLA+ strings. *)
(***************************************************************************)
EXTENDS Integers, Sequences, FiniteSets, TLC

VARIABLES
    raw,            \* clean: the RawEvent `self`
    cleaned,        \* clean: its outcome, NotCleaned before the call
    pc,             \* per request: position in current_week
    posts,          \* per request: upstream POSTs issued
    response,       \* per request: the upstream response received
    fetched,        \* per request: outcome of fetch_this_weeks
    raw_events,     \* per request: the decoded Vec<RawEvent>
    idx,            \* per request: number of records the loop has cleaned
    games,          \* per request: the local Vec<Event>
    envelope,       \* per request: the Json<APIResult> returned
    CURRENT_WEEK    \* main.rs lazy_static: Arc<Mutex<Vec<Event>>>

vars == <<raw, cleaned, pc, posts, response, fetched, raw_events, idx, games,
          envelope, CURRENT_WEEK>>

(***************************************************************************)
(* Bounds of the model.                                                    *)
(***************************************************************************)
MaxRecords == 3
NumRequests == 2

(***************************************************************************)
(* String literals of the source and of the inputs.                        *)
(***************************************************************************)
S_empty == <<>>
S_0 == <<"0">>
S_1 == <<"1">>
S_2 == <<"2">>
S_space == <<" ">>
S_dash == <<"-">>
S_slash == <<"/">>
S_colon == <<":">>
S_sport == <<"s", "p", "o", "r", "t">>
S_school == <<"s", "c", "h", "o", "o", "l">>
S_MiddleSchool == <<"M", "i", "d", "d", "l", "e", " ", "S", "c", "h", "o", "o", "l">>
S_varsity == <<"v", "a", "r", "s", "i", "t", "y">>
S_TBA == <<"T", "B", "A">>
N_Track == <<"B", "o", "y", "s", "-", "G", "i", "r", "l", "s", " ", "V", "a", "r", "s", "i", "t", "y", " ", "O", "u", "t", "d", "o", "o", "r", " ", "T", "r", "a", "c", "k">>
N_Board == <<"S", "c", "h", "o", "o", "l", " ", "B", "o", "a", "r", "d", " ", "M", "e", "e", "t", "i", "n", "g">>
N_MSGolf == <<"M", "i", "d", "d", "l", "e", " ", "S", "c", "h", "o", "o", "l", " ", "G", "o", "l", "f">>
N_msgolf == <<"m", "i", "d", "d", "l", "e", " ", "s", "c", "h", "o", "o", "l", " ", "G", "o", "l", "f">>
N_JVGolfSp == <<"J", "V", " ", "G", "o", "l", "f", " ">>
N_VARSITY == <<"V", "A", "R", "S", "I", "T", "Y", " ", "G", "o", "l", "f">>
N_Golf == <<"G", "o", "l", "f">>
L_Sanborn == <<"S", "a", "n", "b", "o", "r", "n">>
O_Multiple == <<"M", "u", "l", "t", "i", "p", "l", "e", " ", "O", "p", "p", "o", "n", "e", "n", "t", "s">>
T_4PM == <<"4", ":", "0", "0", " ", "P", "M">>
T_1205AM == <<"1", "2", ":", "0", "5", " ", "A", "M">>
T_bad == <<"2", "5", ":", "0", "0", " ", "P", "M">>
T_721 == <<"7", ":", "2", "1", " ", "P", "M">>
D_5_10_2022 == <<"5", "/", "1", "0", "/", "2", "0", "2", "2">>
D_tba == <<"t", "b", "a">>
D_2_30 == <<"2", "/", "3", "0", "/", "2", "0", "2", "2">>
D_long == <<"5", "/", "1", "0", "/", "2", "0", "2", "2", "1">>
D_05_10_2022 == <<"0", "5", "/", "1", "0", "/", "2", "0", "2", "2">>
D_leap == <<"2", "/", "2", "9", "/", "2", "0", "2", "4">>
Y_2022 == <<"2", "0", "2", "2">>
M_5 == <<"5">>
M_13 == <<"1", "3">>
Day_3 == <<"3">>
Upper == <<"A", "B", "C", "D", "E", "F", "G", "H", "I", "J", "K", "L", "M", "N", "O", "P", "Q", "R", "S", "T", "U", "V", "W", "X", "Y", "Z">>
Lower == <<"a", "b", "c", "d", "e", "f", "g", "h", "i", "j", "k", "l", "m", "n", "o", "p", "q", "r", "s", "t", "u", "v", "w", "x", "y", "z">>
Digits == <<"0", "1", "2", "3", "4", "5", "6", "7", "8", "9">>

\* Local::now().format("%z"): the process's UTC offset, as the test expects it.
LocalOffset == <<"-", "0", "4", "0", "0">>

(***************************************************************************)
(* String operations of std used by clean.                                 *)
(***************************************************************************)
Drop(s, n) == SubSeq(s, n + 1, Len(s))

StartsWith(s, prefix) ==
    /\ Len(prefix) <= Len(s)
    /\ SubSeq(s, 1, Len(prefix)) = prefix

\* str::contains(pat): scan for the first offset at which pat matches
RECURSIVE ContainsFrom(_, _, _)
ContainsFrom(hay, pat, i) ==
    IF i + Len(pat) - 1 > Len(hay) THEN FALSE
    ELSE IF SubSeq(hay, i, i + Len(pat) - 1) = pat THEN TRUE
    ELSE ContainsFrom(hay, pat, i + 1)

Contains(hay, pat) == ContainsFrom(hay, pat, 1)

to_lowercase_char(c) ==
    IF \E i \in 1..Len(Upper) : Upper[i] = c
    THEN Lower[CHOOSE i \in 1..Len(Upper) : Upper[i] = c]
    ELSE c

to_lowercase(s) == [i \in 1..Len(s) |-> to_lowercase_char(s[i])]

\* variant: split_whitespace().last(), which drops the empty trailing piece
RECURSIVE trim_end(_)
trim_end(s) ==
    IF Len(s) > 0 /\ s[Len(s)] = " " THEN trim_end(SubSeq(s, 1, Len(s) - 1)) ELSE s

RECURSIVE SplitLastWsFrom(_, _)
SplitLastWsFrom(s, i) ==
    IF i = 0 THEN s
    ELSE IF s[i] = " " THEN SubSeq(s, i + 1, Len(s))
    ELSE SplitLastWsFrom(s, i - 1)

split_last_whitespace(s) == SplitLastWsFrom(trim_end(s), Len(trim_end(s)))

\* s.split(" ").last().unwrap(): the piece after the last space; split always
\* yields at least one piece, so the unwrap cannot fail
RECURSIVE SplitLastFrom(_, _)
SplitLastFrom(s, i) ==
    IF i = 0 THEN s
    ELSE IF s[i] = " " THEN Drop(s, i)
    ELSE SplitLastFrom(s, i - 1)

split_last(s) == SplitLastFrom(s, Len(s))

\* format!("{:0>w}", s): right-align in width w, filling with '0'
RECURSIVE PadZeroLeft(_, _)
PadZeroLeft(s, w) == IF Len(s) >= w THEN s ELSE PadZeroLeft(<<"0">> \o s, w)

IsDigit(c) == \E i \in 1..Len(Digits) : Digits[i] = c
DigitVal(c) == (CHOOSE i \in 1..Len(Digits) : Digits[i] = c) - 1

(***************************************************************************)
(* chrono's format-driven parser (format::parse), item by item.            *)
(***************************************************************************)
RECURSIVE trim_start(_)
trim_start(s) == IF Len(s) > 0 /\ s[1] = " " THEN trim_start(Tail(s)) ELSE s

\* scan::number(s, 1, max): one to max decimal digits
RECURSIVE ScanDigits(_, _, _, _)
ScanDigits(s, max, taken, acc) ==
    IF taken < max /\ Len(s) > 0 /\ IsDigit(s[1])
    THEN ScanDigits(Tail(s), max, taken + 1, acc * 10 + DigitVal(s[1]))
    ELSE [ok |-> taken >= 1, val |-> acc, rest |-> s]

\* Item::Numeric: leading whitespace is skipped, then the number is scanned
Numeric(s, max) == ScanDigits(trim_start(s), max, 0, 0)

\* Item::Literal
Literal(s, lit) ==
    IF StartsWith(s, lit) THEN [ok |-> TRUE, val |-> 0, rest |-> Drop(s, Len(lit))]
    ELSE [ok |-> FALSE, val |-> 0, rest |-> s]

\* Fixed::UpperAmPm: "am"/"pm" in either case; val 1 for pm
AmPm(s) ==
    IF Len(s) < 2 THEN [ok |-> FALSE, val |-> 0, rest |-> s]
    ELSE LET two == to_lowercase(SubSeq(s, 1, 2)) IN
         IF two = <<"a", "m">> THEN [ok |-> TRUE, val |-> 0, rest |-> Drop(s, 2)]
         ELSE IF two = <<"p", "m">> THEN [ok |-> TRUE, val |-> 1, rest |-> Drop(s, 2)]
         ELSE [ok |-> FALSE, val |-> 0, rest |-> s]

\* Fixed::TimezoneOffset: sign, hh, mm; val in minutes east of UTC
TimezoneOffset(s0) ==
    LET s == trim_start(s0) IN
    IF Len(s) < 5 \/ s[1] \notin {"+", "-"} \/ \E i \in 2..5 : ~IsDigit(s[i])
    THEN [ok |-> FALSE, val |-> 0, rest |-> s]
    ELSE LET hh == DigitVal(s[2]) * 10 + DigitVal(s[3])
             mm == DigitVal(s[4]) * 10 + DigitVal(s[5])
             mins == hh * 60 + mm
         IN [ok |-> mm <= 59, val |-> IF s[1] = "-" THEN 0 - mins ELSE mins,
             rest |-> Drop(s, 5)]

IsLeap(y) == (y % 4 = 0 /\ y % 100 # 0) \/ y % 400 = 0

DaysInMonth(y, m) ==
    IF m \in {4, 6, 9, 11} THEN 30
    ELSE IF m = 2 THEN (IF IsLeap(y) THEN 29 ELSE 28)
    ELSE 31

\* Parsed::to_naive_date from year, month, day
ValidDate(y, m, d) == m \in 1..12 /\ d >= 1 /\ d <= DaysInMonth(y, m)

NoDate == [some |-> FALSE, year |-> 0, month |-> 0, day |-> 0]
SomeDate(y, m, d) == [some |-> TRUE, year |-> y, month |-> m, day |-> d]

\* NaiveDate::parse_from_str(s, "%m/%d/%Y")
parse_naive_date(s) ==
    LET mo == Numeric(s, 2)
        l1 == Literal(mo.rest, S_slash)
        da == Numeric(l1.rest, 2)
        l2 == Literal(da.rest, S_slash)
        yr == Numeric(l2.rest, 4)
    IN  IF /\ mo.ok /\ l1.ok /\ da.ok /\ l2.ok /\ yr.ok
           /\ yr.rest = <<>>
           /\ ValidDate(yr.val, mo.val, da.val)
        THEN [ok |-> TRUE, date |-> SomeDate(yr.val, mo.val, da.val)]
        ELSE [ok |-> FALSE, date |-> NoDate]

NoTime == [year |-> 0, month |-> 0, day |-> 0, hour |-> 0, minute |-> 0, offset |-> 0]

\* DateTime::parse_from_str(s, "%Y-%m-%d %I:%M %p %z")
parse_datetime(s) ==
    LET yr == Numeric(s, 4)
        l1 == Literal(yr.rest, S_dash)
        mo == Numeric(l1.rest, 2)
        l2 == Literal(mo.rest, S_dash)
        da == Numeric(l2.rest, 2)
        hr == Numeric(trim_start(da.rest), 2)
        l3 == Literal(hr.rest, S_colon)
        mi == Numeric(l3.rest, 2)
        ap == AmPm(trim_start(mi.rest))
        tz == TimezoneOffset(trim_start(ap.rest))
    IN  IF /\ yr.ok /\ l1.ok /\ mo.ok /\ l2.ok /\ da.ok
           /\ hr.ok /\ l3.ok /\ mi.ok /\ ap.ok /\ tz.ok
           /\ tz.rest = <<>>
           /\ ValidDate(yr.val, mo.val, da.val)
           /\ hr.val \in 1..12
           /\ mi.val <= 59
        THEN [ok |-> TRUE,
              time |-> [year |-> yr.val, month |-> mo.val, day |-> da.val,
                        hour |-> (hr.val % 12) + 12 * ap.val,
                        minute |-> mi.val, offset |-> tz.val]]
        ELSE [ok |-> FALSE, time |-> NoTime]

(***************************************************************************)
(* RawEvent::clean (fetch.rs).                                             *)
(***************************************************************************)
\* fn str_to_bool: "" and "0" are false, "1" is true, anything else hits
\* unreachable!() and panics
str_to_bool(text) ==
    IF text = S_empty THEN [panic |-> FALSE, val |-> FALSE]
    ELSE IF text = S_0 THEN [panic |-> FALSE, val |-> FALSE]
    ELSE IF text = S_1 THEN [panic |-> FALSE, val |-> TRUE]
    ELSE [panic |-> TRUE, val |-> FALSE]

NoEvent ==
    [name |-> <<>>, time |-> NoTime, sport |-> <<>>, varsity |-> FALSE,
     opponent |-> <<>>, location |-> <<>>, rescheduled |-> FALSE,
     rescheduled_date |-> NoDate, cancelled |-> FALSE]

CleanPanic == [kind |-> "Panic", err |-> "", event |-> NoEvent]
CleanErr(msg) == [kind |-> "Err", err |-> msg, event |-> NoEvent]
CleanNone == [kind |-> "None", err |-> "", event |-> NoEvent]
CleanSome(e) == [kind |-> "Some", err |-> "", event |-> e]
NotCleaned == [kind |-> "NotCleaned", err |-> "", event |-> NoEvent]

\* the string handed to DateTime::parse_from_str
datetime_text(self) ==
    self.year \o S_dash \o PadZeroLeft(self.month, 2) \o S_dash
        \o PadZeroLeft(self.day, 2) \o S_space \o PadZeroLeft(self.time, 4)
        \o S_space \o LocalOffset

\* variant: the three operands joined with the non-short-circuit |, so that
\* str_to_bool(home) runs for every record
filter_out_eager(self) ==
    LET h == str_to_bool(self.home) IN
    IF h.panic THEN [panic |-> TRUE, val |-> FALSE]
    ELSE [panic |-> FALSE,
          val |-> \/ self.event_type # S_sport
                  \/ Contains(self.name, S_MiddleSchool)
                  \/ ~h.val]

\* the filter of lines 107-112: || evaluates left to right and stops at the
\* first true operand, so str_to_bool(home) runs only for sport events whose
\* name has no "Middle School"
filter_out(self) ==
    IF self.event_type # S_sport THEN [panic |-> FALSE, val |-> TRUE]
    ELSE IF Contains(self.name, S_MiddleSchool) THEN [panic |-> FALSE, val |-> TRUE]
    ELSE LET h == str_to_bool(self.home) IN [panic |-> h.panic, val |-> ~h.val]

\* variant: rescheduled only when a date was given
rescheduled_only_dated(self) ==
    self.rescheduled_date # S_empty /\ self.rescheduled_date # S_TBA

\* the rescheduled flag of line 133
rescheduled_of(self) == self.rescheduled_date # S_empty

\* the struct literal of lines 114-144; its fields are evaluated in source
\* order: time (?), sport, cancelled (may panic), rescheduled_date (?)
build_event(self) ==
    LET t == parse_datetime(datetime_text(self))
        c == str_to_bool(self.cancelled)
        d == IF self.rescheduled_date = S_empty \/ self.rescheduled_date = S_TBA
             THEN [ok |-> TRUE, date |-> NoDate]
             ELSE parse_naive_date(self.rescheduled_date)
    IN  IF ~t.ok THEN CleanErr("Failed to parse datetime")
        ELSE IF c.panic THEN CleanPanic
        ELSE IF ~d.ok THEN CleanErr("chrono::ParseError")
        ELSE CleanSome(
                [name |-> self.name,
                 time |-> t.time,
                 sport |-> split_last(self.name),
                 varsity |-> Contains(to_lowercase(self.name), S_varsity),
                 opponent |-> self.opponent,
                 location |-> self.location,
                 rescheduled |-> rescheduled_of(self),
                 rescheduled_date |-> d.date,
                 cancelled |-> c.val])

clean(self) ==
    LET f == filter_out(self) IN
    IF f.panic THEN CleanPanic
    ELSE IF f.val THEN CleanNone
    ELSE build_event(self)

(***************************************************************************)
(* JSON values (serde_json::Value).  A node is [t, k, s, n, a]: its type,  *)
(* its key when it is an object member, its text when a string, its value  *)
(* when a number, and its elements (array), members (object) or value      *)
(* (member).                                                               *)
(***************************************************************************)
JNull == [t |-> "null", k |-> "", s |-> <<>>, n |-> 0, a |-> <<>>]
JNum(n) == [t |-> "num", k |-> "", s |-> <<>>, n |-> n, a |-> <<>>]
JStr(s) == [t |-> "str", k |-> "", s |-> s, n |-> 0, a |-> <<>>]
JArr(a) == [t |-> "arr", k |-> "", s |-> <<>>, n |-> 0, a |-> a]
JObj(members) == [t |-> "obj", k |-> "", s |-> <<>>, n |-> 0, a |-> members]
JMember(k, v) == [t |-> "member", k |-> k, s |-> <<>>, n |-> 0, a |-> <<v>>]

HasKey(obj, k) == \E i \in 1..Len(obj.a) : obj.a[i].k = k
Lookup(obj, k) == obj.a[CHOOSE i \in 1..Len(obj.a) : obj.a[i].k = k].a[1]

\* i64::to_string
RECURSIVE NatToString(_)
NatToString(n) ==
    IF n < 10 THEN <<Digits[n + 1]>>
    ELSE NatToString(n \div 10) \o <<Digits[(n % 10) + 1]>>

IntToString(n) == IF n < 0 THEN S_dash \o NatToString(0 - n) ELSE NatToString(n)

\* String::deserialize: only a JSON string
deserialize_string(node) ==
    IF node.t = "str" THEN [ok |-> TRUE, s |-> node.s] ELSE [ok |-> FALSE, s |-> <<>>]

\* serde_aux deserialize_string_from_number: a string as is, a number printed
deserialize_string_from_number(node) ==
    IF node.t = "str" THEN [ok |-> TRUE, s |-> node.s]
    ELSE IF node.t = "num" THEN [ok |-> TRUE, s |-> IntToString(node.n)]
    ELSE [ok |-> FALSE, s |-> <<>>]

\* RawEvent's fields in declaration order: serde name and whether the field
\* is declared with deserialize_string_from_number
RawEventFields ==
    << [k |-> "isPostponed", lenient |-> TRUE],
       [k |-> "Month", lenient |-> FALSE],
       [k |-> "Year", lenient |-> FALSE],
       [k |-> "Day", lenient |-> FALSE],
       [k |-> "thePlace", lenient |-> FALSE],
       [k |-> "eventType", lenient |-> FALSE],
       [k |-> "theOpponentString", lenient |-> FALSE],
       [k |-> "isCancelled", lenient |-> TRUE],
       [k |-> "theTitle", lenient |-> FALSE],
       [k |-> "homeOrAway", lenient |-> TRUE],
       [k |-> "theTime", lenient |-> FALSE],
       [k |-> "rescheddate", lenient |-> FALSE] >>

deserialize_field(node, lenient) ==
    IF lenient THEN deserialize_string_from_number(node) ELSE deserialize_string(node)

FieldMissing == [ok |-> FALSE, s |-> <<>>]

\* serde_json::from_value::<RawEvent>: an object is read by key (unknown keys
\* are ignored), an array by position, anything else is an invalid type
from_value(node) ==
    LET n == Len(RawEventFields)
        vals == [i \in 1..n |->
                   IF node.t = "obj"
                   THEN IF HasKey(node, RawEventFields[i].k)
                        THEN deserialize_field(Lookup(node, RawEventFields[i].k),
                                               RawEventFields[i].lenient)
                        ELSE FieldMissing
                   ELSE IF node.t = "arr" /\ Len(node.a) = n
                        THEN deserialize_field(node.a[i], RawEventFields[i].lenient)
                        ELSE FieldMissing]
    IN  [ok |-> \A i \in 1..n : vals[i].ok,
         event |-> [postponed |-> vals[1].s, month |-> vals[2].s, year |-> vals[3].s,
                    day |-> vals[4].s, location |-> vals[5].s,
                    event_type |-> vals[6].s, opponent |-> vals[7].s,
                    cancelled |-> vals[8].s, name |-> vals[9].s, home |-> vals[10].s,
                    time |-> vals[11].s, rescheduled_date |-> vals[12].s]]

(***************************************************************************)
(* RawEvent::fetch_this_weeks (fetch.rs).  An upstream response is         *)
(* [transport, is_json, body]: whether send()/text() succeeded, whether    *)
(* the text is JSON at all, and the JSON value it denotes.                 *)
(***************************************************************************)
FetchErr(msg) == [kind |-> "Err", err |-> msg, events |-> <<>>]
FetchPanic == [kind |-> "Panic", err |-> "", events |-> <<>>]
FetchOk(events) == [kind |-> "Ok", err |-> "", events |-> events]
NotFetched == [kind |-> "NotFetched", err |-> "", events |-> <<>>]

\* serde_json::from_str::<Vec<Vec<Value>>>: an array whose elements are arrays
is_vec_vec_value(resp) ==
    /\ resp.is_json
    /\ resp.body.t = "arr"
    /\ \A i \in 1..Len(resp.body.a) : resp.body.a[i].t = "arr"

\* raw_games.get(1): Some iff the outer Vec has an element at index 1
get_1_is_some(raw_games) == Len(raw_games) >= 2

\* lines 88-92: every record of raw_games[1] is decoded and unwrapped
decode_all(records) ==
    IF \A i \in 1..Len(records) : from_value(records[i]).ok
    THEN FetchOk([i \in 1..Len(records) |-> from_value(records[i]).event])
    ELSE FetchPanic

fetch_this_weeks(resp) ==
    IF resp.transport # "ok" THEN FetchErr("error sending request")
    ELSE IF ~is_vec_vec_value(resp) THEN FetchErr("serde_json::Error")
    ELSE IF ~get_1_is_some(resp.body.a) THEN FetchPanic
    ELSE decode_all(resp.body.a[2].a)

(***************************************************************************)
(* APIResult and the current_week handler (main.rs).                       *)
(***************************************************************************)
NoneString == [some |-> FALSE, msg |-> ""]
SomeString(m) == [some |-> TRUE, msg |-> m]
NoneData == [some |-> FALSE, list |-> <<>>]
SomeData(l) == [some |-> TRUE, list |-> l]

Ok(v) == [is_ok |-> TRUE, val |-> v, err |-> ""]
Err(m) == [is_ok |-> FALSE, val |-> <<>>, err |-> m]

\* variant: the Err arm written with ok: true
from_result_ok_true(result) ==
    IF result.is_ok
    THEN [ok |-> TRUE, err |-> NoneString, data |-> SomeData(result.val)]
    ELSE [ok |-> TRUE, err |-> SomeString(result.err), data |-> NoneData]

\* APIResult::from_result
from_result(result) ==
    IF result.is_ok
    THEN [ok |-> TRUE, err |-> NoneString, data |-> SomeData(result.val)]
    ELSE [ok |-> FALSE, err |-> SomeString(result.err), data |-> NoneData]

\* the APIResult literal of the two early returns of current_week
failure_envelope(msg) == [ok |-> FALSE, err |-> SomeString(msg), data |-> NoneData]

\* value of envelope[r] while request r has returned nothing
NoEnvelope == [ok |-> FALSE, err |-> NoneString, data |-> NoneData]
NoResponse == [transport |-> "none", is_json |-> FALSE, body |-> JNull]

Requests == 1..NumRequests

\* the request reaches `.send().await`: one POST goes out
SendRequest(r) ==
    /\ pc[r] = "start"
    /\ posts' = [posts EXCEPT ![r] = @ + 1]
    /\ pc' = [pc EXCEPT ![r] = "awaiting"]
    /\ UNCHANGED <<raw, cleaned, response, fetched, raw_events, idx, games,
                   envelope, CURRENT_WEEK>>

\* lines 49-57: the upstream answers with resp, fetch_this_weeks finishes and
\* current_week either returns the failure envelope or enters the loop
Receive(r, resp) ==
    /\ pc[r] = "awaiting"
    /\ LET f == fetch_this_weeks(resp) IN
       /\ response' = [response EXCEPT ![r] = resp]
       /\ fetched' = [fetched EXCEPT ![r] = f.kind]
       /\ raw_events' = [raw_events EXCEPT ![r] = f.events]
       /\ pc' = [pc EXCEPT ![r] =
                   IF f.kind = "Panic" THEN "panicked"
                   ELSE IF f.kind = "Err" THEN "done"
                   ELSE "cleaning"]
       /\ envelope' = [envelope EXCEPT ![r] =
                   IF f.kind = "Err" THEN failure_envelope(f.err) ELSE @]
    /\ UNCHANGED <<raw, cleaned, posts, idx, games, CURRENT_WEEK>>

\* variant: a record whose clean fails is skipped and the loop goes on
CleanNext_skip_errors(r) ==
    /\ pc[r] = "cleaning"
    /\ idx[r] < Len(raw_events[r])
    /\ LET cleaned_event == clean(raw_events[r][idx[r] + 1]) IN
       /\ idx' = [idx EXCEPT ![r] = @ + 1]
       /\ pc' = [pc EXCEPT ![r] =
                   IF cleaned_event.kind = "Panic" THEN "panicked" ELSE @]
       /\ games' = [games EXCEPT ![r] =
                   IF cleaned_event.kind = "Some"
                   THEN Append(@, cleaned_event.event) ELSE @]
    /\ UNCHANGED <<raw, cleaned, posts, response, fetched, raw_events, envelope,
                   CURRENT_WEEK>>

\* lines 58-70: one iteration of the loop over raw_events
CleanNext(r) ==
    /\ pc[r] = "cleaning"
    /\ idx[r] < Len(raw_events[r])
    /\ LET cleaned_event == clean(raw_events[r][idx[r] + 1]) IN
       /\ idx' = [idx EXCEPT ![r] = @ + 1]
       /\ pc' = [pc EXCEPT ![r] =
                   IF cleaned_event.kind = "Panic" THEN "panicked"
                   ELSE IF cleaned_event.kind = "Err" THEN "done"
                   ELSE @]
       /\ envelope' = [envelope EXCEPT ![r] =
                   IF cleaned_event.kind = "Err"
                   THEN failure_envelope(cleaned_event.err) ELSE @]
       /\ games' = [games EXCEPT ![r] =
                   IF cleaned_event.kind = "Some"
                   THEN Append(@, cleaned_event.event) ELSE @]
    /\ UNCHANGED <<raw, cleaned, posts, response, fetched, raw_events, CURRENT_WEEK>>

\* variant: the handler also stores the list in the process-wide CURRENT_WEEK
\* and serves what is stored there
Respond_cached(r) ==
    /\ pc[r] = "cleaning"
    /\ idx[r] = Len(raw_events[r])
    /\ CURRENT_WEEK' = IF CURRENT_WEEK = <<>> THEN games[r] ELSE CURRENT_WEEK
    /\ envelope' = [envelope EXCEPT ![r] = from_result(Ok(CURRENT_WEEK'))]
    /\ pc' = [pc EXCEPT ![r] = "done"]
    /\ UNCHANGED <<raw, cleaned, posts, response, fetched, raw_events, idx, games>>

\* line 72: the loop is over
Respond(r) ==
    /\ pc[r] = "cleaning"
    /\ idx[r] = Len(raw_events[r])
    /\ envelope' = [envelope EXCEPT ![r] = from_result(Ok(games[r]))]
    /\ pc' = [pc EXCEPT ![r] = "done"]
    /\ UNCHANGED <<raw, cleaned, posts, response, fetched, raw_events, idx, games,
                   CURRENT_WEEK>>

\* RawEvent::clean called on raw
CleanCall ==
    /\ cleaned.kind = "NotCleaned"
    /\ cleaned' = clean(raw)
    /\ UNCHANGED <<raw, pc, posts, response, fetched, raw_events, idx, games,
                   envelope, CURRENT_WEEK>>

(***************************************************************************)
(* Inputs.                                                                 *)
(***************************************************************************)
\* the record of the repository's test, as a home game
BaseRaw ==
    [postponed |-> S_0, month |-> M_5, year |-> Y_2022, day |-> Day_3,
     location |-> L_Sanborn, event_type |-> S_sport, opponent |-> O_Multiple,
     cancelled |-> S_0, name |-> N_Track, home |-> S_1, time |-> T_4PM,
     rescheduled_date |-> S_empty]

Tokens == {S_empty, S_0, S_1, S_2}
Names == {S_empty, N_Track, N_Board, N_MSGolf, N_msgolf, N_JVGolfSp, N_VARSITY, N_Golf}
RescheduledDates ==
    {S_empty, S_TBA, D_5_10_2022, D_05_10_2022, D_leap, D_tba, D_2_30, D_long}
Times == {T_4PM, T_1205AM, T_bad, S_empty}

\* the RawEvents clean is applied to
RawEvents ==
    {[BaseRaw EXCEPT !.event_type = et, !.name = nm, !.home = h, !.cancelled = c,
                     !.rescheduled_date = rd, !.month = mo, !.time = tm] :
        et \in {S_sport, S_school}, nm \in Names, h \in Tokens, c \in Tokens,
        rd \in RescheduledDates, mo \in {M_5, M_13}, tm \in Times}

\* a RawEvent as the JSON object the upstream sends, tokens as strings
ToObject(e) ==
    JObj(<< JMember("isPostponed", JStr(e.postponed)), JMember("Month", JStr(e.month)),
            JMember("Year", JStr(e.year)), JMember("Day", JStr(e.day)),
            JMember("thePlace", JStr(e.location)),
            JMember("eventType", JStr(e.event_type)),
            JMember("theOpponentString", JStr(e.opponent)),
            JMember("isCancelled", JStr(e.cancelled)),
            JMember("theTitle", JStr(e.name)), JMember("homeOrAway", JStr(e.home)),
            JMember("theTime", JStr(e.time)),
            JMember("rescheddate", JStr(e.rescheduled_date)) >>)

\* the same with the three tokens sent as JSON numbers and an unknown key
NumericObject(e, postponed, cancelled, home) ==
    JObj(<< JMember("id", JNum(17)),
            JMember("isPostponed", JNum(postponed)), JMember("Month", JStr(e.month)),
            JMember("Year", JStr(e.year)), JMember("Day", JStr(e.day)),
            JMember("thePlace", JStr(e.location)),
            JMember("eventType", JStr(e.event_type)),
            JMember("theOpponentString", JStr(e.opponent)),
            JMember("isCancelled", JNum(cancelled)),
            JMember("theTitle", JStr(e.name)), JMember("homeOrAway", JNum(home)),
            JMember("theTime", JStr(e.time)),
            JMember("rescheddate", JStr(e.rescheduled_date)) >>)

R_some == BaseRaw
R_some2 == [BaseRaw EXCEPT !.name = N_Golf, !.cancelled = S_1, !.rescheduled_date = S_TBA]
R_away == [BaseRaw EXCEPT !.home = S_0]
R_school == [BaseRaw EXCEPT !.event_type = S_school, !.name = N_Board, !.time = T_721]
R_badtime == [BaseRaw EXCEPT !.time = T_bad]
R_baddate == [BaseRaw EXCEPT !.rescheduled_date = D_tba]
R_badhome == [BaseRaw EXCEPT !.home = S_2]
R_badcancelled == [BaseRaw EXCEPT !.cancelled = S_2]

\* records that decode into RawEvent
GoodRecords ==
    {ToObject(e) : e \in {R_some, R_some2, R_away, R_badtime, R_baddate, R_badhome}}
        \cup {NumericObject(R_some2, 0, 1, 1)}

\* records that do not: a missing field, a mistyped field, not an object
J_missing == JObj(<<JMember("theTitle", JStr(N_Golf))>>)
J_mistyped ==
    JObj([i \in 1..Len(ToObject(R_some).a) |->
            IF ToObject(R_some).a[i].k = "theTitle"
            THEN JMember("theTitle", JNum(7)) ELSE ToObject(R_some).a[i]])
BadRecords == {J_missing, J_mistyped}

SeqsUpTo(S, n) == UNION {[1..k -> S] : k \in 0..n}

WithBody(b) == [transport |-> "ok", is_json |-> TRUE, body |-> b]
WeekBody(records) == WithBody(JArr(<<JArr(<<>>), JArr(records)>>))

\* bodies that are JSON but not a list of lists with an index 1
MalformedBodies ==
    { JArr(<<>>), JArr(<<JArr(<<>>)>>), JObj(<<>>), JNum(3),
      JArr(<<JNum(1), JArr(<<ToObject(R_some)>>)>>) }

\* every upstream response of the single-request specification
Responses ==
    {[transport |-> "error", is_json |-> FALSE, body |-> JNull],
     [transport |-> "ok", is_json |-> FALSE, body |-> JNull]}
        \cup {WithBody(b) : b \in MalformedBodies}
        \cup {WeekBody(l) : l \in SeqsUpTo(GoodRecords \cup BadRecords, MaxRecords)}
        \cup {WithBody(JArr(<<JArr(<<>>), JArr(<<ToObject(R_some)>>), JArr(<<>>)>>))}

\* the upstream responses of the concurrent specification
ConcResponses ==
    {[transport |-> "error", is_json |-> FALSE, body |-> JNull],
     WithBody(JArr(<<JArr(<<>>)>>)),
     WeekBody(<<>>),
     WeekBody(<<ToObject(R_some), ToObject(R_away), ToObject(R_some2)>>),
     WeekBody(<<ToObject(R_some), ToObject(R_badtime), ToObject(R_some2)>>),
     WeekBody(<<ToObject(R_some2), ToObject(R_badhome), ToObject(R_some)>>),
     WeekBody(<<ToObject(R_school), ToObject(R_badcancelled)>>),
     WeekBody(<<ToObject(R_some), JNum(5)>>)}

(***************************************************************************)
(* Specifications.                                                         *)
(***************************************************************************)
InitRequests ==
    /\ pc = [r \in Requests |-> "start"]
    /\ posts = [r \in Requests |-> 0]
    /\ response = [r \in Requests |-> NoResponse]
    /\ fetched = [r \in Requests |-> "NotFetched"]
    /\ raw_events = [r \in Requests |-> <<>>]
    /\ idx = [r \in Requests |-> 0]
    /\ games = [r \in Requests |-> <<>>]
    /\ envelope = [r \in Requests |-> NoEnvelope]
    /\ CURRENT_WEEK = <<>>

\* one request, every response
Init ==
    /\ raw = BaseRaw
    /\ cleaned = NotCleaned
    /\ InitRequests

Next ==
    \/ SendRequest(1)
    \/ \E resp \in Responses : Receive(1, resp)
    \/ CleanNext(1)
    \/ Respond(1)

Spec == Init /\ [][Next]_vars

\* concurrent requests
NextConc ==
    \E r \in Requests :
        \/ SendRequest(r)
        \/ \E resp \in ConcResponses : Receive(r, resp)
        \/ CleanNext(r)
        \/ Respond(r)

SpecConc == Init /\ [][NextConc]_vars

\* clean as a pure function of every RawEvent
InitClean ==
    /\ raw \in RawEvents
    /\ cleaned = NotCleaned
    /\ InitRequests

NextClean == CleanCall

SpecClean == InitClean /\ [][NextClean]_vars

(***************************************************************************)
(* Properties.                                                             *)
(***************************************************************************)
Returned(r) == pc[r] \in {"cleaning", "done", "panicked"}

\* the outcomes of clean over a list, and the first that is not Ok
CleanResults(events) == [i \in 1..Len(events) |-> clean(events[i])]

FirstFailure(results) ==
    IF \E i \in 1..Len(results) : results[i].kind \notin {"Some", "None"}
    THEN CHOOSE i \in 1..Len(results) :
            /\ results[i].kind \notin {"Some", "None"}
            /\ \A j \in 1..(i - 1) : results[j].kind \in {"Some", "None"}
    ELSE 0

\* the Events among the first n outcomes, in input order
RECURSIVE EventsOf(_, _)
EventsOf(results, n) ==
    IF n = 0 THEN <<>>
    ELSE IF results[n].kind = "Some"
         THEN Append(EventsOf(results, n - 1), results[n].event)
         ELSE EventsOf(results, n - 1)

\* C1: current_week is a short-circuit fold over the records in input order:
\* a failed fetch is the result; otherwise the first record whose clean fails
\* ends the run with that record's error, no later record is cleaned and no
\* Event cleaned so far is returned; if none fails the data is exactly the
\* Events of the records cleaned to Some, in input order.
C1_ShortCircuitFold ==
    \A r \in Requests :
        Returned(r) =>
            LET f == fetch_this_weeks(response[r])
                res == CleanResults(f.events)
                k == FirstFailure(res)
            IN  /\ f.kind = "Err" =>
                    /\ pc[r] = "done"
                    /\ idx[r] = 0
                    /\ envelope[r] =
                         [ok |-> FALSE, err |-> SomeString(f.err), data |-> NoneData]
                /\ f.kind = "Ok" =>
                    /\ k > 0 => idx[r] <= k
                    /\ pc[r] = "cleaning" =>
                         /\ k > 0 => idx[r] < k
                         /\ games[r] = EventsOf(res, idx[r])
                    /\ (pc[r] = "done" /\ k > 0) =>
                         /\ res[k].kind = "Err"
                         /\ idx[r] = k
                         /\ envelope[r] =
                              [ok |-> FALSE, err |-> SomeString(res[k].err),
                               data |-> NoneData]
                    /\ (pc[r] = "done" /\ k = 0) =>
                         /\ idx[r] = Len(f.events)
                         /\ envelope[r] =
                              [ok |-> TRUE, err |-> NoneString,
                               data |-> SomeData(EventsOf(res, Len(res)))]
                    /\ pc[r] = "panicked" => (k > 0 /\ res[k].kind = "Panic" /\ idx[r] = k)

\* an Event was cleaned, the next record failed, a later record was never cleaned
C1_Witness ==
    /\ pc[1] = "done"
    /\ ~envelope[1].ok
    /\ idx[1] = 2
    /\ Len(raw_events[1]) = 3
    /\ games[1] # <<>>

WellFormedEnvelope(e) ==
    /\ e.ok <=> ~e.err.some
    /\ e.ok <=> e.data.some

\* C2: in every envelope ok = true iff err is null iff data is non-null; a
\* success holds the list, a fetch or clean failure holds a message and no
\* data, whatever had been cleaned before.
C2_EnvelopeShape ==
    \A r \in Requests :
        /\ pc[r] = "done" =>
             /\ WellFormedEnvelope(envelope[r])
             /\ envelope[r].ok =>
                  (fetched[r] = "Ok" /\ envelope[r].data.list = games[r])
             /\ (fetched[r] = "Err" \/ idx[r] < Len(raw_events[r])
                    \/ (idx[r] > 0 /\ clean(raw_events[r][idx[r]]).kind = "Err")) =>
                  /\ ~envelope[r].ok
                  /\ envelope[r].err.some
                  /\ envelope[r].data = NoneData
        /\ \A res \in {Ok(games[r]), Err("Failed to parse datetime")} :
             /\ WellFormedEnvelope(from_result(res))
             /\ from_result(res).ok = res.is_ok
             /\ res.is_ok => from_result(res).data.list = res.val
             /\ ~res.is_ok => from_result(res).err.msg = res.err

\* a clean failure after an Event had been pushed: the envelope holds no data
C2_Witness ==
    /\ pc[1] = "done"
    /\ fetched[1] = "Ok"
    /\ games[1] # <<>>
    /\ ~envelope[1].ok
    /\ envelope[1].data = NoneData
    /\ envelope[1].err.some

\* C3: every request ends by returning an envelope; no input leads to a
\* panic of the request flow.
C3_NeverPanics == \A r \in Requests : pc[r] # "panicked"

ValidTokens == {S_empty, S_0, S_1}

Called == cleaned.kind # "NotCleaned"

\* C4: a home or cancelled token outside "", "0", "1" makes clean fail with
\* an explicit error, whatever event_type and name are.
C4_InvalidTokenIsError ==
    (Called /\ (raw.home \notin ValidTokens \/ raw.cancelled \notin ValidTokens))
        => cleaned.kind = "Err"

\* pat occurs in hay
HasSubstring(hay, pat) ==
    \E i \in 0..(Len(hay) - Len(pat)) : SubSeq(hay, i + 1, i + Len(pat)) = pat

PassesFilter(e) ==
    /\ e.event_type = S_sport
    /\ ~HasSubstring(e.name, S_MiddleSchool)
    /\ e.home = S_1

DateTimeParses(e) ==
    /\ parse_datetime(datetime_text(e)).ok
    /\ e.rescheduled_date \in {S_empty, S_TBA} \/ parse_naive_date(e.rescheduled_date).ok

\* t is the piece of name after its last space (all of name if it has none)
IsLastToken(t, name) ==
    /\ \A i \in 1..Len(t) : t[i] # " "
    /\ \E k \in 0..Len(name) :
         /\ t = SubSeq(name, k + 1, Len(name))
         /\ k = 0 \/ name[k] = " "

\* name holds "varsity" in some mix of cases
HasVarsity(name) ==
    \E i \in 0..(Len(name) - Len(S_varsity)) :
        \A j \in 1..Len(S_varsity) :
            name[i + j] \in {S_varsity[j], Upper[CHOOSE u \in 1..Len(Lower) : Lower[u] = S_varsity[j]]}

\* C6: a record that passes the filter, with a valid cancelled token and
\* parseable dates, gives Some(Event): name, opponent and location verbatim,
\* sport the last space-separated piece of name (empty for an empty name or a
\* trailing space), varsity iff name holds "varsity" in any case, cancelled
\* iff the token is "1".
C6_SomeEventFields ==
    (Called /\ PassesFilter(raw) /\ raw.cancelled \in ValidTokens /\ DateTimeParses(raw))
        => /\ cleaned.kind = "Some"
           /\ cleaned.event.name = raw.name
           /\ cleaned.event.opponent = raw.opponent
           /\ cleaned.event.location = raw.location
           /\ IsLastToken(cleaned.event.sport, raw.name)
           /\ cleaned.event.varsity <=> HasVarsity(raw.name)
           /\ cleaned.event.cancelled <=> (raw.cancelled = S_1)

\* a name that ends with a space gives the empty sport
C6_Witness ==
    /\ cleaned.kind = "Some"
    /\ raw.name = N_JVGolfSp
    /\ cleaned.event.sport = <<>>
    /\ ~cleaned.event.varsity
    /\ cleaned.event.cancelled

\* C7: as the repository's test asserts, a sport record with home token "0",
\* cancelled "0", no reschedule date and well-formed date and time cleans to
\* Some(Event) with rescheduled false, no rescheduled_date, cancelled false.
C7_AwayRecordIsSome ==
    (/\ Called
     /\ raw.event_type = S_sport
     /\ ~HasSubstring(raw.name, S_MiddleSchool)
     /\ raw.home = S_0
     /\ raw.cancelled = S_0
     /\ raw.rescheduled_date = S_empty
     /\ parse_datetime(datetime_text(raw)).ok)
        => /\ cleaned.kind = "Some"
           /\ cleaned.event.name = raw.name
           /\ cleaned.event.opponent = raw.opponent
           /\ cleaned.event.location = raw.location
           /\ IsLastToken(cleaned.event.sport, raw.name)
           /\ HasSubstring(raw.name, <<"V", "a", "r", "s", "i", "t", "y">>)
                 => cleaned.event.varsity
           /\ ~cleaned.event.rescheduled
           /\ cleaned.event.rescheduled_date = NoDate
           /\ ~cleaned.event.cancelled

\* the ways month m, day d, year y are written as M/D/YYYY, with or without a
\* leading zero on month and day
MDYTexts(m, d, y) ==
    {mm \o S_slash \o dd \o S_slash \o IntToString(y) :
        mm \in {IntToString(m), PadZeroLeft(IntToString(m), 2)},
        dd \in {IntToString(d), PadZeroLeft(IntToString(d), 2)}}

Years == {2022, 2024}

IsCalendarDate(y, m, d) ==
    /\ m \in 1..12
    /\ d \in 1..31
    /\ m \in {4, 6, 9, 11} => d <= 30
    /\ m = 2 => d <= (IF y % 4 = 0 THEN 29 ELSE 28)

WellFormedMDY(text) ==
    \E y \in Years, m \in 1..12, d \in 1..31 :
        IsCalendarDate(y, m, d) /\ text \in MDYTexts(m, d, y)

\* what C8 says of an Event whose reschedule date is "", a calendar date, or
\* text that is no date
RescheduledRest ==
    /\ (cleaned.kind = "Some" /\ raw.rescheduled_date = S_empty) =>
         (~cleaned.event.rescheduled /\ cleaned.event.rescheduled_date = NoDate)
    /\ (cleaned.kind = "Some" /\ raw.rescheduled_date \notin {S_empty, S_TBA}) =>
         /\ cleaned.event.rescheduled
         /\ \E y \in Years, m \in 1..12, d \in 1..31 :
              /\ IsCalendarDate(y, m, d)
              /\ raw.rescheduled_date \in MDYTexts(m, d, y)
              /\ cleaned.event.rescheduled_date = SomeDate(y, m, d)
    /\ (/\ Called
        /\ raw.rescheduled_date \notin {S_empty, S_TBA}
        /\ ~WellFormedMDY(raw.rescheduled_date)) =>
         /\ cleaned.kind # "Some"
         /\ (/\ PassesFilter(raw)
             /\ raw.cancelled \in ValidTokens
             /\ parse_datetime(datetime_text(raw)).ok) => cleaned.kind = "Err"

\* C8 as claimed: "" and "TBA" both give rescheduled = false and no date, a
\* well-formed M/D/YYYY gives rescheduled = true and that date, any other
\* text gives an error.
C8_TbaNotRescheduled ==
    /\ (cleaned.kind = "Some" /\ raw.rescheduled_date = S_TBA) =>
         (~cleaned.event.rescheduled /\ cleaned.event.rescheduled_date = NoDate)
    /\ RescheduledRest

\* C8 as amended: "TBA" gives rescheduled = true and no date; "" gives
\* rescheduled = false and no date, a well-formed M/D/YYYY gives rescheduled =
\* true and that date, any other text gives an error.
C8_TbaRescheduledNoDate ==
    /\ (cleaned.kind = "Some" /\ raw.rescheduled_date = S_TBA) =>
         (cleaned.event.rescheduled /\ cleaned.event.rescheduled_date = NoDate)
    /\ RescheduledRest

\* an Event of a record rescheduled to "TBA"
C8_Witness ==
    /\ cleaned.kind = "Some"
    /\ raw.rescheduled_date = S_TBA
    /\ cleaned.event.rescheduled
    /\ cleaned.event.rescheduled_date = NoDate

\* the body is a list of lists with an index 1 whose records all decode
ExpectedShape(resp) ==
    /\ resp.is_json
    /\ resp.body.t = "arr"
    /\ \A i \in 1..Len(resp.body.a) : resp.body.a[i].t = "arr"
    /\ Len(resp.body.a) >= 2
    /\ \A i \in 1..Len(resp.body.a[2].a) : from_value(resp.body.a[2].a[i]).ok

\* C9: fetch_this_weeks returns Err for every body that is not JSON, not a
\* list of lists, has no index 1 or holds a record that does not decode, and
\* Ok with one RawEvent per record, in order, only when every record decodes.
C9_BadShapeIsErr ==
    \A r \in Requests :
        (Returned(r) /\ response[r].transport = "ok") =>
            /\ ~ExpectedShape(response[r]) => fetched[r] = "Err"
            /\ ExpectedShape(response[r]) =>
                 /\ fetched[r] = "Ok"
                 /\ Len(raw_events[r]) = Len(response[r].body.a[2].a)
                 /\ \A i \in 1..Len(raw_events[r]) :
                      raw_events[r][i] = from_value(response[r].body.a[2].a[i]).event

\* the envelope a response leads to, when it leads to one
ExpectedEnvelope(resp) ==
    LET f == fetch_this_weeks(resp)
        res == CleanResults(f.events)
        k == FirstFailure(res)
    IN  IF f.kind = "Err"
        THEN [ok |-> FALSE, err |-> SomeString(f.err), data |-> NoneData]
        ELSE IF k > 0
        THEN [ok |-> FALSE, err |-> SomeString(res[k].err), data |-> NoneData]
        ELSE [ok |-> TRUE, err |-> NoneString, data |-> SomeData(EventsOf(res, Len(res)))]

\* C10: in every interleaving of concurrent requests each request issues
\* exactly one upstream POST, its envelope is determined by its own response
\* alone, and CURRENT_WEEK stays empty.
C10_IndependentRequests ==
    /\ CURRENT_WEEK = <<>>
    /\ \A r \in Requests :
         /\ posts[r] = (IF pc[r] = "start" THEN 0 ELSE 1)
         /\ pc[r] = "done" => envelope[r] = ExpectedEnvelope(response[r])
         /\ pc[r] \in {"start", "awaiting"} =>
              (response[r] = NoResponse /\ envelope[r] = NoEnvelope)

\* two requests that overlapped got different upstream responses and each
\* returned its own: one a list of Events, the other a failure
C10_Witness ==
    /\ pc[1] = "done"
    /\ pc[2] = "done"
    /\ envelope[1].ok
    /\ envelope[1].data.list # <<>>
    /\ ~envelope[2].ok
    /\ posts[1] = 1
    /\ posts[2] = 1

====
